---- MODULE Spec2Model ----
(***************************************************************************)
(* State-machine model of the DevHub dashboard (src/js/app.js): the        *)
(* Project record with its derived views, and the DashboardManager with    *)
(* its query pipeline filter -> search -> sort -> paginate, the rendered   *)
(* grid and pagination controls, and the intents these controls raise.     *)
(***************************************************************************)
EXTENDS Integers, Sequences, FiniteSets, TLC

(***************************************************************************)
(* Bounds of the model.                                                    *)
(***************************************************************************)
\* Size of the largest generated collection (three pages of ten).
MaxProjects == 21
\* Largest page number the "Siguiente" button is followed to.
MaxPage == 4

(***************************************************************************)
(* Text.  A string is a sequence of one-character strings.                 *)
(***************************************************************************)
LowerLetters ==
    <<"a","b","c","d","e","f","g","h","i","j","k","l","m",
      "n","o","p","q","r","s","t","u","v","w","x","y","z">>
UpperLetters ==
    <<"A","B","C","D","E","F","G","H","I","J","K","L","M",
      "N","O","P","Q","R","S","T","U","V","W","X","Y","Z">>
\* Characters that are no unaccented letters: they collate before letters.
Punctuation == <<" ", "-">>

Chars ==
    {LowerLetters[i] : i \in 1..26} \cup {UpperLetters[i] : i \in 1..26}
        \cup {Punctuation[i] : i \in 1..2} \cup {"ó", "Ó"}

IsUpper(c) == c = "Ó" \/ \E i \in 1..26 : UpperLetters[i] = c

\* String.prototype.toLowerCase, one character.
LowerChar ==
    [c \in Chars |->
        IF c = "Ó" THEN "ó"
        ELSE IF \E i \in 1..26 : UpperLetters[i] = c
             THEN LowerLetters[CHOOSE i \in 1..26 : UpperLetters[i] = c]
             ELSE c]

\* String.prototype.toLowerCase.
toLowerCase(s) == [i \in 1..Len(s) |-> LowerChar[s[i]]]

\* String.prototype.includes: needle occurs in hay at some position.
includes(hay, needle) ==
    \E k \in 0..(Len(hay) - Len(needle)) :
        \A j \in 1..Len(needle) : hay[k + j] = needle[j]

(***************************************************************************)
(* String.prototype.localeCompare with the default collation: strings are  *)
(* compared on the primary weights of their characters (base letter, case  *)
(* and accent ignored, punctuation before letters), then on accents, then  *)
(* on case (lower case first).  The result is -1, 0 or 1.                  *)
(***************************************************************************)
BaseChar == [c \in Chars |-> IF LowerChar[c] = "ó" THEN "o" ELSE LowerChar[c]]

PrimaryWeight ==
    [c \in Chars |->
        IF \E i \in 1..2 : Punctuation[i] = c
        THEN CHOOSE i \in 1..2 : Punctuation[i] = c
        ELSE 2 + (CHOOSE i \in 1..26 : LowerLetters[i] = BaseChar[c])]

SecondaryWeight == [c \in Chars |-> IF c \in {"ó", "Ó"} THEN 1 ELSE 0]

TertiaryWeight == [c \in Chars |-> IF IsUpper(c) THEN 1 ELSE 0]

\* Lexicographic comparison of two strings under a weight function.
RECURSIVE CompareFrom(_, _, _, _)
CompareFrom(w, a, b, i) ==
    IF i > Len(a) /\ i > Len(b) THEN 0
    ELSE IF i > Len(a) THEN -1
    ELSE IF i > Len(b) THEN 1
    ELSE IF w[a[i]] < w[b[i]] THEN -1
    ELSE IF w[a[i]] > w[b[i]] THEN 1
    ELSE CompareFrom(w, a, b, i + 1)

localeCompare(a, b) ==
    LET p == CompareFrom(PrimaryWeight, a, b, 1)
        s == CompareFrom(SecondaryWeight, a, b, 1)
        t == CompareFrom(TertiaryWeight, a, b, 1)
    IN  IF p # 0 THEN p ELSE IF s # 0 THEN s ELSE t

(***************************************************************************)
(* Dates.  fechaActualizacion is an ISO 8601 calendar date <<y, m, d>>;    *)
(* new Date(...) converts it to its time value.                            *)
(***************************************************************************)
\* Days from 1970-01-01 to the civil date y-m-d (proleptic Gregorian).
DaysFromCivil(y, m, d) ==
    LET yy  == IF m <= 2 THEN y - 1 ELSE y
        era == yy \div 400
        yoe == yy - era * 400
        mp  == IF m > 2 THEN m - 3 ELSE m + 9
        doy == (153 * mp + 2) \div 5 + d - 1
        doe == yoe * 365 + yoe \div 4 - yoe \div 100 + doy
    IN  era * 146097 + doe - 719468

\* new Date(fecha) as a number, in days: the time value of a calendar date is
\* a whole number of days (of 86400000 ms) since the epoch.
DateValue(fecha) == DaysFromCivil(fecha[1], fecha[2], fecha[3])

(***************************************************************************)
(* Numbers in markup.  A data-page attribute holds the decimal text of a   *)
(* number; the click handler reads it back with parseInt.                  *)
(***************************************************************************)
DigitChars == <<"0","1","2","3","4","5","6","7","8","9">>

\* Template interpolation `${n}` of an integer.
RECURSIVE NumberToString(_)
NumberToString(n) ==
    IF n < 0 THEN <<"-">> \o NumberToString(-n)
    ELSE IF n < 10 THEN <<DigitChars[n + 1]>>
    ELSE NumberToString(n \div 10) \o <<DigitChars[(n % 10) + 1]>>

IsDigit(c) == \E i \in 1..10 : DigitChars[i] = c
DigitValue(c) == (CHOOSE i \in 1..10 : DigitChars[i] = c) - 1

\* Value of the longest prefix of digits of s from position i on, given the
\* value acc of the digits read so far.
RECURSIVE ParseDigits(_, _, _)
ParseDigits(s, i, acc) ==
    IF i > Len(s) \/ ~IsDigit(s[i]) THEN acc
    ELSE ParseDigits(s, i + 1, acc * 10 + DigitValue(s[i]))

\* A number that parseInt returns: NaN, or an integer value.
NaN == [nan |-> TRUE, value |-> 0]
Number(n) == [nan |-> FALSE, value |-> n]
isNaN(x) == x.nan

\* The value of a field that a record of projects.json does not have.
Undefined == [nan |-> TRUE, value |-> 0, undefined |-> TRUE]

\* a === b for two values that are numbers or Undefined: NaN equals nothing.
StrictEquals(a, b) ==
    IF a = Undefined \/ b = Undefined THEN a = b
    ELSE ~a.nan /\ ~b.nan /\ a.value = b.value

\* Template interpolation `${v}` of a number or of Undefined.
TemplateText(v) ==
    IF v = Undefined THEN <<"u","n","d","e","f","i","n","e","d">>
    ELSE IF v.nan THEN <<"N","a","N">>
    ELSE NumberToString(v.value)

\* parseInt(s): an optional sign, then digits; NaN when no digit follows.
parseInt(s) ==
    LET neg   == Len(s) >= 1 /\ s[1] = "-"
        first == IF neg THEN 2 ELSE 1
    IN  IF first > Len(s) \/ ~IsDigit(s[first]) THEN NaN
        ELSE IF neg THEN Number(-ParseDigits(s, first, 0))
        ELSE Number(ParseDigits(s, first, 0))

(***************************************************************************)
(* class Project                                                           *)
(***************************************************************************)
undefined == "undefined"

\* new Project(id, nombre, estado, fechaActualizacion, ...)
Project(id, nombre, estado, fechaActualizacion) ==
    [id |-> id, nombre |-> nombre, estado |-> estado,
     fechaActualizacion |-> fechaActualizacion]

\* Month names of the locale es-ES.
MonthNames ==
    <<"enero", "febrero", "marzo", "abril", "mayo", "junio", "julio",
      "agosto", "septiembre", "octubre", "noviembre", "diciembre">>

\* Project.formatDate: day, full month name and year ("20 de febrero de 2025").
formatDate(project) ==
    [day   |-> project.fechaActualizacion[3],
     month |-> MonthNames[project.fechaActualizacion[2]],
     year  |-> project.fechaActualizacion[1]]

\* Property names that every object literal inherits from Object.prototype.
ObjectPrototypeKeys ==
    {"constructor", "toString", "toLocaleString", "valueOf", "hasOwnProperty",
     "isPrototypeOf", "propertyIsEnumerable", "__proto__"}

\* What a lookup of an inherited property name gives: a member of
\* Object.prototype, which is not undefined.
inheritedMember == "Object.prototype member"

\* Project.getStatusClass: statusClasses[this.estado], a property lookup on an
\* object literal.
getStatusClass(project) ==
    CASE project.estado = "en-progreso" -> "status-progress"
      [] project.estado = "completados" -> "status-completed"
      [] project.estado = "pausados"    -> "status-paused"
      [] project.estado \in ObjectPrototypeKeys -> inheritedMember
      [] OTHER                          -> undefined

\* Project.getStatusText: statusTexts[this.estado], a property lookup on an
\* object literal.
getStatusText(project) ==
    CASE project.estado = "en-progreso" -> "En Progreso"
      [] project.estado = "completados" -> "Completado"
      [] project.estado = "pausados"    -> "Pausado"
      [] project.estado \in ObjectPrototypeKeys -> inheritedMember
      [] OTHER                          -> undefined

(***************************************************************************)
(* The data source: projects.json.                                         *)
(***************************************************************************)
\* The characters of a status token.
StatusChars(estado) ==
    CASE estado = "en-progreso" -> <<"e","n","-","p","r","o","g","r","e","s","o">>
      [] estado = "completados" -> <<"c","o","m","p","l","e","t","a","d","o","s">>
      [] estado = "pausados"    -> <<"p","a","u","s","a","d","o","s">>
      [] estado = "archivado"   -> <<"a","r","c","h","i","v","a","d","o">>
      [] estado = "constructor" -> <<"c","o","n","s","t","r","u","c","t","o","r">>

\* The three-record sample of the README.
SampleProjects ==
    << Project(Number(1), <<"E","-","c","o","m","m","e","r","c","e"," ",
                    "P","l","a","t","f","o","r","m">>,
               "en-progreso", <<2025, 2, 20>>),
       Project(Number(2), <<"B","l","o","g"," ","P","e","r","s","o","n","a","l">>,
               "completados", <<2025, 2, 15>>),
       Project(Number(3), <<"A","p","p"," ","d","e"," ","G","e","s","t","i","ó","n">>,
               "pausados", <<2025, 2, 10>>) >>

\* Names of the generated records: equal names, names that differ in case
\* only, and names that share a prefix.
GeneratedNames ==
    << <<"B","l","o","g">>, <<"A","p","p">>, <<"b","l","o","g">>,
       <<"A","p","i">>, <<"B","l","o","g">>, <<"W","e","b">>, <<"a","p","p">> >>

\* A collection of n records with unique identifiers 1..n, two status
\* categories (none is paused) and dates that repeat.
GeneratedProjects(n) ==
    [i \in 1..n |->
        Project(Number(i),
                GeneratedNames[((i * 3) % 7) + 1],
                IF i % 3 = 0 THEN "completados" ELSE "en-progreso",
                <<2025, 1 + ((i * 2) % 3), 1 + ((i * 7) % 5)>>)]

\* A file with entries that the data model does not allow: a status that is
\* no known category, an entry without id, a status that is a property name
\* of Object.prototype.
MalformedProjects ==
    << Project(Number(1), <<"W","e","b">>, "archivado", <<2025, 3, 1>>),
       Project(Undefined, <<"A","p","i">>, "constructor", <<2025, 3, 2>>),
       Project(Number(3), <<"B","l","o","g">>, "pausados", <<2025, 3, 2>>) >>

\* What the fetch of projects.json can resolve to.
Collections ==
    {SampleProjects, MalformedProjects}
        \cup {GeneratedProjects(n) : n \in {0, 10, 11, MaxProjects}}

(***************************************************************************)
(* The controls of the page.                                               *)
(***************************************************************************)
\* data-filter values of the filter buttons: "todos" and the three states.
Filters == {"todos", "en-progreso", "completados", "pausados"}

\* Option values of the sort select.
SortKeys == {"fechaActualizacion", "nombre", "estado"}

\* Texts typed into the search input.
SearchTexts ==
    { <<>>, <<"b","l","o","g">>, <<"B","L","O","G">>, <<"a","p">>,
      <<"z","z">> }

\* localStorage.getItem of a key that was never set.
null == "null"

(***************************************************************************)
(* class DashboardManager: the query pipeline.                             *)
(***************************************************************************)
projectsPerPage == 10

\* slice that also returns the element at index end.
sliceInclusive(arr, start, end) ==
    LET len  == Len(arr)
        from == IF start < 0 THEN (IF len + start < 0 THEN 0 ELSE len + start)
                ELSE IF start > len THEN len ELSE start
        to   == IF end < 0 THEN (IF len + end < 0 THEN 0 ELSE len + end)
                ELSE IF end > len THEN len ELSE end
    IN  IF from >= to THEN <<>>
        ELSE SubSeq(arr, from + 1, IF to < len THEN to + 1 ELSE to)

\* Array.prototype.slice(start, end).
slice(arr, start, end) ==
    LET len  == Len(arr)
        from == IF start < 0 THEN (IF len + start < 0 THEN 0 ELSE len + start)
                ELSE IF start > len THEN len ELSE start
        to   == IF end < 0 THEN (IF len + end < 0 THEN 0 ELSE len + end)
                ELSE IF end > len THEN len ELSE end
    IN  IF from >= to THEN <<>> ELSE SubSeq(arr, from + 1, to)

\* Math.ceil(a / b) for a >= 0, b > 0.
MathCeilDiv(a, b) == (a + b - 1) \div b

\* filterProjects without the case of the filter "todos".
filterProjectsNoAll(all, filter) ==
    SelectSeq(all, LAMBDA project : project.estado = filter)

\* DashboardManager.filterProjects
filterProjects(all, filter) ==
    IF filter = "todos" THEN all
    ELSE SelectSeq(all, LAMBDA project : project.estado = filter)

\* searchProjects that lower-cases the names but not the search text.
searchProjectsRawText(list, inputValue) ==
    SelectSeq(list,
              LAMBDA project : includes(toLowerCase(project.nombre), inputValue))

\* DashboardManager.searchProjects
searchProjects(list, inputValue) ==
    LET text == toLowerCase(inputValue)
    IN  SelectSeq(list,
                  LAMBDA project : includes(toLowerCase(project.nombre), text))

\* A comparator that orders the dates oldest first.
compareProjectsOldestFirst(key, a, b) ==
    IF key = "fechaActualizacion"
    THEN DateValue(a.fechaActualizacion) - DateValue(b.fechaActualizacion)
    ELSE IF key = "nombre" THEN localeCompare(a.nombre, b.nombre)
    ELSE IF key = "estado"
    THEN localeCompare(StatusChars(a.estado), StatusChars(b.estado))
    ELSE 0

\* The comparator that sortProjects passes to Array.prototype.sort; a key
\* that is none of the three gives undefined, which sort takes as 0.
compareProjects(key, a, b) ==
    IF key = "fechaActualizacion"
    THEN DateValue(b.fechaActualizacion) - DateValue(a.fechaActualizacion)
    ELSE IF key = "nombre" THEN localeCompare(a.nombre, b.nombre)
    ELSE IF key = "estado"
    THEN localeCompare(StatusChars(a.estado), StatusChars(b.estado))
    ELSE 0

\* Insertion of x before the elements that compare equal to x.
RECURSIVE InsertBeforeEqual(_, _, _, _)
InsertBeforeEqual(key, acc, x, i) ==
    IF i > Len(acc) THEN Append(acc, x)
    ELSE IF compareProjects(key, acc[i], x) >= 0
         THEN SubSeq(acc, 1, i - 1) \o <<x>> \o SubSeq(acc, i, Len(acc))
         ELSE InsertBeforeEqual(key, acc, x, i + 1)

\* Stable insertion of x into the sorted sequence acc: x goes before the first
\* element that compares greater than x, after every element that does not.
RECURSIVE InsertStable(_, _, _, _)
InsertStable(key, acc, x, i) ==
    IF i > Len(acc) THEN Append(acc, x)
    ELSE IF compareProjects(key, acc[i], x) > 0
         THEN SubSeq(acc, 1, i - 1) \o <<x>> \o SubSeq(acc, i, Len(acc))
         ELSE InsertStable(key, acc, x, i + 1)

RECURSIVE SortFrom(_, _, _, _)
SortFrom(key, list, i, acc) ==
    IF i > Len(list) THEN acc
    ELSE SortFrom(key, list, i + 1, InsertStable(key, acc, list[i], 1))

\* DashboardManager.sortProjects: Array.prototype.sort (stable) under the
\* comparator of the selected key.
sortProjects(list, key) == SortFrom(key, list, 1, <<>>)

\* paginateProjects that takes the page number as a zero-based index.
paginateProjectsZeroBased(list, page) ==
    LET startIndex == page * projectsPerPage
        endIndex   == startIndex + projectsPerPage
    IN  slice(list, startIndex, endIndex)

\* paginateProjects that falls back to the last page when the requested page
\* starts beyond the end of the list.
paginateProjectsClamped(list, page) ==
    LET startIndex == (page - 1) * projectsPerPage
        lastStart  == ((Len(list) - 1) \div projectsPerPage) * projectsPerPage
        from       == IF startIndex >= Len(list) /\ Len(list) > 0
                      THEN lastStart ELSE startIndex
    IN  slice(list, from, from + projectsPerPage)

\* DashboardManager.paginateProjects
paginateProjects(list, page) ==
    LET startIndex == (page - 1) * projectsPerPage
        endIndex   == startIndex + projectsPerPage
    IN  slice(list, startIndex, endIndex)

\* DashboardManager.createProjectCard: the card of one project.
createProjectCard(project) ==
    [dataId      |-> TemplateText(project.id),
     title       |-> project.nombre,
     statusClass |-> getStatusClass(project),
     statusText  |-> getStatusText(project),
     date        |-> formatDate(project)]

\* One button of the pagination container.
PaginationButton(label, disabled, active, page) ==
    [label |-> label, disabled |-> disabled, active |-> active,
     dataPage |-> NumberToString(page)]

\* setupPagination that never disables the "Siguiente" button.
setupPaginationNextEnabled(totalProjects, page) ==
    LET totalPages == MathCeilDiv(totalProjects, projectsPerPage)
    IN  << PaginationButton("Anterior", page = 1, FALSE, page - 1) >>
        \o [i \in 1..totalPages |->
                PaginationButton(NumberToString(i), FALSE, page = i, i)]
        \o << PaginationButton("Siguiente", FALSE, FALSE, page + 1) >>

\* setupPagination that never disables the "Anterior" button.
setupPaginationPrevEnabled(totalProjects, page) ==
    LET totalPages == MathCeilDiv(totalProjects, projectsPerPage)
    IN  << PaginationButton("Anterior", FALSE, FALSE, page - 1) >>
        \o [i \in 1..totalPages |->
                PaginationButton(NumberToString(i), FALSE, page = i, i)]
        \o << PaginationButton("Siguiente", page = totalPages, FALSE,
                               page + 1) >>

\* DashboardManager.setupPagination: the markup of the pagination container.
setupPagination(totalProjects, page) ==
    LET totalPages == MathCeilDiv(totalProjects, projectsPerPage)
    IN  << PaginationButton("Anterior", page = 1, FALSE, page - 1) >>
        \o [i \in 1..totalPages |->
                PaginationButton(NumberToString(i), FALSE, page = i, i)]
        \o << PaginationButton("Siguiente", page = totalPages, FALSE,
                               page + 1) >>

\* loadProjects that cuts the page out before it sorts.
loadProjectsPaginateFirst(all, filter, inputValue, key, page) ==
    LET filteredProjects  == filterProjects(all, filter)
        searchedProjects  == searchProjects(filteredProjects, inputValue)
        paginatedProjects == paginateProjects(searchedProjects, page)
        sortedProjects    == sortProjects(paginatedProjects, key)
    IN  [projectsGrid |-> [i \in 1..Len(sortedProjects) |->
                              createProjectCard(sortedProjects[i])],
         pagination   |-> setupPagination(Len(searchedProjects), page),
         projects     |-> all]

\* loadProjects that sorts the filtered array before it searches: with the
\* filter "todos" the array sorted in place is this.projects itself.
loadProjectsSortFirst(all, filter, inputValue, key, page) ==
    LET filteredProjects  == filterProjects(all, filter)
        filteredArray     == IF filter = "todos" THEN "this.projects"
                             ELSE "new array"
        sortedProjects    == sortProjects(filteredProjects, key)
        searchedProjects  == searchProjects(sortedProjects, inputValue)
        paginatedProjects == paginateProjects(searchedProjects, page)
    IN  [projectsGrid |-> [i \in 1..Len(paginatedProjects) |->
                              createProjectCard(paginatedProjects[i])],
         pagination   |-> setupPagination(Len(searchedProjects), page),
         projects     |-> IF filteredArray = "this.projects"
                          THEN sortedProjects ELSE all]

\* DashboardManager.loadProjects: what one call writes into the page, the
\* cards of #projectsGrid and the buttons of #pagination, and what it leaves
\* in this.projects.  Array.prototype.sort reorders its array in place:
\* filterProjects returns this.projects itself for "todos" and a new array
\* otherwise, searchProjects always returns a new array (Array.prototype
\* .filter), and that array is the one sorted.
loadProjects(all, filter, inputValue, key, page) ==
    LET filteredProjects  == filterProjects(all, filter)
        filteredArray     == IF filter = "todos" THEN "this.projects"
                             ELSE "new array"
        searchedProjects  == searchProjects(filteredProjects, inputValue)
        searchedArray     == "new array"
        sortedProjects    == sortProjects(searchedProjects, key)
        paginatedProjects == paginateProjects(sortedProjects, page)
    IN  [projectsGrid |-> [i \in 1..Len(paginatedProjects) |->
                              createProjectCard(paginatedProjects[i])],
         pagination   |-> setupPagination(Len(sortedProjects), page),
         projects     |-> IF searchedArray = "this.projects"
                          THEN sortedProjects ELSE all]

\* DashboardManager.setActiveFilter: the filter buttons that carry "active".
setActiveFilter(filter) == {button \in Filters : button = filter}

(***************************************************************************)
(* State.                                                                  *)
(***************************************************************************)
VARIABLES
    phase,          \* "loading" while init awaits the fetch, then "ready"
    projects,       \* this.projects
    currentFilter,  \* this.currentFilter
    currentPage,    \* this.currentPage
    localStorage,   \* localStorage item "currentFilter", or null
    searchInput,    \* value of #searchInput
    sortSelect,     \* value of #sortSelect
    projectsGrid,   \* cards rendered in #projectsGrid
    pagination,     \* buttons rendered in #pagination
    activeButtons,  \* filter buttons that carry the class "active"
    consoleErrors,  \* number of console.error calls of this session
    modal,          \* the detail modals appended to the body (none or one)
    uncaughtError,  \* a listener of this session has thrown
    lastIntent,     \* history: the last intent raised, [kind, arg]
    everSelected    \* history: the last filter selected in any session

\* An intent raised by a control: filter-selected(category),
\* search-changed(text), sort-changed(key), page-selected(n),
\* card-selected(id); "load" is the end of the initial load, "close" the
\* closing of the detail modal, "filter-unheard" a click on a filter button
\* that has no listener yet.  repeated tells that the intent asked for the
\* query state that was already current.
Intent(kind, arg) == [kind |-> kind, arg |-> arg, repeated |-> FALSE]

\* filter-selected(filter), raised in the current state.
FilterIntent(filter) ==
    [kind |-> "filter", arg |-> filter,
     repeated |-> (filter = currentFilter /\ currentPage = 1)]

vars ==
    <<phase, projects, currentFilter, currentPage, localStorage, searchInput,
      sortSelect, projectsGrid, pagination, activeButtons, consoleErrors,
      modal, uncaughtError, lastIntent, everSelected>>

\* The constructor of a session that finds the item stored in localStorage:
\* fields are set, init() runs up to the await of the fetch.
constructorState(stored) ==
    /\ phase = "loading"
    /\ projects = <<>>
    /\ localStorage = stored
    /\ currentFilter = (IF stored = null THEN "todos" ELSE stored)
    /\ currentPage = 1
    /\ searchInput = <<>>
    /\ sortSelect \in SortKeys
    /\ projectsGrid = <<>>
    /\ pagination = <<>>
    /\ activeButtons = {}
    /\ consoleErrors = 0
    /\ modal = <<>>
    /\ uncaughtError = FALSE
    /\ lastIntent = Intent("none", <<>>)

\* The first session: nothing is stored.
Init ==
    /\ constructorState(null)
    /\ everSelected = null

\* The page is loaded again: a new session, with the stored item kept.
Reload ==
    /\ phase' = "loading"
    /\ projects' = <<>>
    /\ currentFilter' = (IF localStorage = null THEN "todos" ELSE localStorage)
    /\ currentPage' = 1
    /\ searchInput' = <<>>
    /\ sortSelect' \in SortKeys
    /\ projectsGrid' = <<>>
    /\ pagination' = <<>>
    /\ activeButtons' = {}
    /\ consoleErrors' = 0
    /\ modal' = <<>>
    /\ uncaughtError' = FALSE
    /\ lastIntent' = Intent("none", <<>>)
    /\ UNCHANGED <<localStorage, everSelected>>

\* The rest of init() once loadProjectsData has returned with collection all:
\* setupEventListeners, loadProjects, setActiveFilter.
initContinue(all) ==
    LET view == loadProjects(all, currentFilter, searchInput, sortSelect,
                             currentPage)
    IN  /\ phase' = "ready"
        /\ projects' = view.projects
        /\ projectsGrid' = view.projectsGrid
        /\ pagination' = view.pagination
        /\ activeButtons' = setActiveFilter(currentFilter)
        /\ lastIntent' = Intent("load", <<>>)
        /\ UNCHANGED <<currentFilter, currentPage, localStorage, searchInput,
                       sortSelect, modal, uncaughtError, everSelected>>

\* loadProjectsData: the fetch resolves and the records are mapped.
LoadResolved(data) ==
    /\ phase = "loading"
    /\ initContinue(data)
    /\ UNCHANGED consoleErrors

\* loadProjectsData in which the catch logs and throws again: init stops.
LoadFailedRethrow ==
    /\ phase = "loading"
    /\ consoleErrors = 0
    /\ consoleErrors' = consoleErrors + 1
    /\ uncaughtError' = TRUE
    /\ UNCHANGED <<phase, projects, currentFilter, currentPage, localStorage,
                   searchInput, sortSelect, projectsGrid, pagination,
                   activeButtons, modal, lastIntent, everSelected>>

\* loadProjectsData: the fetch or the parse fails; the catch logs.
LoadFailed ==
    /\ phase = "loading"
    /\ consoleErrors' = consoleErrors + 1
    /\ initContinue(projects)

\* The user edits the search input before the listeners are installed.
TypeWhileLoading(text) ==
    /\ phase = "loading"
    /\ text # searchInput
    /\ searchInput' = text
    /\ UNCHANGED <<phase, projects, currentFilter, currentPage, localStorage,
                   sortSelect, projectsGrid, pagination, activeButtons,
                   consoleErrors, modal, uncaughtError, lastIntent,
                   everSelected>>

\* The user picks a sort option before the listeners are installed.
SelectWhileLoading(key) ==
    /\ phase = "loading"
    /\ key # sortSelect
    /\ sortSelect' = key
    /\ UNCHANGED <<phase, projects, currentFilter, currentPage, localStorage,
                   searchInput, projectsGrid, pagination, activeButtons,
                   consoleErrors, modal, uncaughtError, lastIntent,
                   everSelected>>

\* A click on a filter button whose listener is installed before the load.
FilterClickWhileLoadingHandled(filter) ==
    /\ phase = "loading"
    /\ currentFilter' = filter
    /\ localStorage' = filter
    /\ everSelected' = filter
    /\ activeButtons' = setActiveFilter(filter)
    /\ lastIntent' = Intent("filter-unheard", filter)
    /\ UNCHANGED <<phase, projects, currentPage, searchInput, sortSelect,
                   projectsGrid, pagination, consoleErrors, modal,
                   uncaughtError>>

\* The user clicks a filter button before the listeners are installed: init
\* calls setupEventListeners only after the await, so nothing handles it.
FilterClickWhileLoading(filter) ==
    /\ phase = "loading"
    /\ lastIntent' = Intent("filter-unheard", filter)
    /\ UNCHANGED <<phase, projects, currentFilter, currentPage, localStorage,
                   searchInput, sortSelect, projectsGrid, pagination,
                   activeButtons, consoleErrors, modal, uncaughtError,
                   everSelected>>

\* The detail modal covers the page (position fixed, full width and height):
\* while it is open no control under it takes a click.
ControlsReachable == phase = "ready" /\ modal = <<>>

\* handleFilterChange that keeps the current page.
handleFilterChangeKeepPage(filter) ==
    LET view == loadProjects(projects, filter, searchInput, sortSelect,
                             currentPage)
    IN  /\ ControlsReachable
        /\ currentFilter' = filter
        /\ localStorage' = filter
        /\ everSelected' = filter
        /\ activeButtons' = setActiveFilter(filter)
        /\ projects' = view.projects
        /\ projectsGrid' = view.projectsGrid
        /\ pagination' = view.pagination
        /\ lastIntent' = FilterIntent(filter)
        /\ UNCHANGED <<phase, currentPage, searchInput, sortSelect,
                       consoleErrors, modal, uncaughtError>>

\* handleFilterChange that does not store the filter.
handleFilterChangeNoPersist(filter) ==
    LET view == loadProjects(projects, filter, searchInput, sortSelect, 1)
    IN  /\ ControlsReachable
        /\ currentFilter' = filter
        /\ everSelected' = filter
        /\ activeButtons' = setActiveFilter(filter)
        /\ currentPage' = 1
        /\ projects' = view.projects
        /\ projectsGrid' = view.projectsGrid
        /\ pagination' = view.pagination
        /\ lastIntent' = FilterIntent(filter)
        /\ UNCHANGED <<phase, localStorage, searchInput, sortSelect,
                       consoleErrors, modal, uncaughtError>>

\* handleFilterChange that adds the cards to those already in the grid.
handleFilterChangeAppend(filter) ==
    LET view == loadProjects(projects, filter, searchInput, sortSelect, 1)
    IN  /\ ControlsReachable
        /\ currentFilter' = filter
        /\ localStorage' = filter
        /\ everSelected' = filter
        /\ activeButtons' = setActiveFilter(filter)
        /\ currentPage' = 1
        /\ projects' = view.projects
        /\ projectsGrid' = projectsGrid \o view.projectsGrid
        /\ pagination' = view.pagination
        /\ lastIntent' = FilterIntent(filter)
        /\ UNCHANGED <<phase, searchInput, sortSelect, consoleErrors, modal,
                       uncaughtError>>

\* DashboardManager.handleFilterChange, run by a click on a filter button.
handleFilterChange(filter) ==
    LET view == loadProjects(projects, filter, searchInput, sortSelect, 1)
    IN  /\ ControlsReachable
        /\ currentFilter' = filter
        /\ localStorage' = filter
        /\ everSelected' = filter
        /\ activeButtons' = setActiveFilter(filter)
        /\ currentPage' = 1
        /\ projects' = view.projects
        /\ projectsGrid' = view.projectsGrid
        /\ pagination' = view.pagination
        /\ lastIntent' = FilterIntent(filter)
        /\ UNCHANGED <<phase, searchInput, sortSelect, consoleErrors, modal,
                       uncaughtError>>

\* An "input" listener that goes back to the first page.
SearchInputListenerResetPage(text) ==
    LET view == loadProjects(projects, currentFilter, text, sortSelect, 1)
    IN  /\ ControlsReachable
        /\ text # searchInput
        /\ searchInput' = text
        /\ currentPage' = 1
        /\ projects' = view.projects
        /\ projectsGrid' = view.projectsGrid
        /\ pagination' = view.pagination
        /\ lastIntent' = Intent("search", text)
        /\ UNCHANGED <<phase, currentFilter, localStorage, sortSelect,
                       activeButtons, consoleErrors, modal, uncaughtError,
                       everSelected>>

\* The "input" listener of #searchInput: the value has changed to text.
SearchInputListener(text) ==
    LET view == loadProjects(projects, currentFilter, text, sortSelect,
                             currentPage)
    IN  /\ ControlsReachable
        /\ text # searchInput
        /\ searchInput' = text
        /\ projects' = view.projects
        /\ projectsGrid' = view.projectsGrid
        /\ pagination' = view.pagination
        /\ lastIntent' = Intent("search", text)
        /\ UNCHANGED <<phase, currentFilter, currentPage, localStorage,
                       sortSelect, activeButtons, consoleErrors, modal,
                       uncaughtError, everSelected>>

\* A "change" listener that does not render again.
SortSelectListenerNoRender(key) ==
    /\ ControlsReachable
    /\ key # sortSelect
    /\ sortSelect' = key
    /\ lastIntent' = Intent("sort", key)
    /\ UNCHANGED <<phase, projects, currentFilter, currentPage, localStorage,
                   searchInput, projectsGrid, pagination, activeButtons,
                   consoleErrors, modal, uncaughtError, everSelected>>

\* The "change" listener of #sortSelect: the value has changed to key.
SortSelectListener(key) ==
    LET view == loadProjects(projects, currentFilter, searchInput, key,
                             currentPage)
    IN  /\ ControlsReachable
        /\ key # sortSelect
        /\ sortSelect' = key
        /\ projects' = view.projects
        /\ projectsGrid' = view.projectsGrid
        /\ pagination' = view.pagination
        /\ lastIntent' = Intent("sort", key)
        /\ UNCHANGED <<phase, currentFilter, currentPage, localStorage,
                       searchInput, activeButtons, consoleErrors, modal,
                       uncaughtError, everSelected>>

\* The page a click on a pagination button asks for.
RequestedPage(button) == parseInt(button.dataPage)

\* The "click" listener of the i-th pagination button.  A disabled button
\* dispatches no click.
PaginationButtonListener(i) ==
    /\ ControlsReachable
    /\ i \in 1..Len(pagination)
    /\ ~pagination[i].disabled
    /\ LET parsed == RequestedPage(pagination[i])
           page   == parsed.value
           view   == loadProjects(projects, currentFilter, searchInput,
                                  sortSelect, page)
       IN  /\ ~isNaN(parsed)
           /\ page <= MaxPage
           /\ currentPage' = page
           /\ projects' = view.projects
           /\ projectsGrid' = view.projectsGrid
           /\ pagination' = view.pagination
           /\ lastIntent' = Intent("page", page)
    /\ UNCHANGED <<phase, currentFilter, localStorage, searchInput,
                   sortSelect, activeButtons, consoleErrors, modal,
                   uncaughtError, everSelected>>

\* The positions in this.projects that Array.prototype.find tests true for
\* the identifier read from a card.
FoundAt(all, projectId) ==
    {k \in 1..Len(all) : StrictEquals(all[k].id, projectId)}

\* DashboardManager.showProjectDetails for a record: the modal it appends.
showProjectDetails(project) ==
    [nombre |-> project.nombre,
     estado |-> getStatusText(project),
     fecha  |-> formatDate(project)]

\* The cards of the grid that are clicked: the first and the last.
ClickedCards == {1, Len(projectsGrid)} \cap (1..Len(projectsGrid))

\* The "click" listener of the i-th card: find the record by the card's
\* data-id and show its details.  When find gives undefined,
\* showProjectDetails throws on project.nombre before it appends the modal.
CardClickListener(i) ==
    /\ ControlsReachable
    /\ i \in ClickedCards
    /\ LET projectId == parseInt(projectsGrid[i].dataId)
           found     == FoundAt(projects, projectId)
       IN  IF found = {}
           THEN /\ uncaughtError' = TRUE
                /\ UNCHANGED modal
           ELSE /\ modal' = <<showProjectDetails(
                                 projects[CHOOSE k \in found :
                                             \A other \in found : k <= other])>>
                /\ UNCHANGED uncaughtError
    /\ lastIntent' = Intent("card", projectsGrid[i].dataId)
    /\ UNCHANGED <<phase, projects, currentFilter, currentPage, localStorage,
                   searchInput, sortSelect, projectsGrid, pagination,
                   activeButtons, consoleErrors, everSelected>>

\* The "click" listener of the modal's close button.
CloseButtonListener ==
    /\ phase = "ready"
    /\ modal # <<>>
    /\ modal' = <<>>
    /\ lastIntent' = Intent("close", <<>>)
    /\ UNCHANGED <<phase, projects, currentFilter, currentPage, localStorage,
                   searchInput, sortSelect, projectsGrid, pagination,
                   activeButtons, consoleErrors, uncaughtError, everSelected>>

\* The "click" listener of window, for a click on the modal's backdrop.
WindowClickListener ==
    /\ phase = "ready"
    /\ modal # <<>>
    /\ modal' = <<>>
    /\ lastIntent' = Intent("close", <<>>)
    /\ UNCHANGED <<phase, projects, currentFilter, currentPage, localStorage,
                   searchInput, sortSelect, projectsGrid, pagination,
                   activeButtons, consoleErrors, uncaughtError, everSelected>>

Next ==
    \/ \E data \in Collections : LoadResolved(data)
    \/ LoadFailed
    \/ \E text \in SearchTexts : TypeWhileLoading(text)
    \/ \E key \in SortKeys : SelectWhileLoading(key)
    \/ \E filter \in Filters : FilterClickWhileLoading(filter)
    \/ \E filter \in Filters : handleFilterChange(filter)
    \/ \E text \in SearchTexts : SearchInputListener(text)
    \/ \E key \in SortKeys : SortSelectListener(key)
    \/ \E i \in 1..(MaxPage + 2) : PaginationButtonListener(i)
    \/ \E i \in 1..projectsPerPage : CardClickListener(i)
    \/ CloseButtonListener
    \/ WindowClickListener
    \/ Reload

Spec == Init /\ [][Next]_vars

(***************************************************************************)
(* The current result, stated from the data model: the records that pass   *)
(* the active filter and the search text, and the pages they fill.         *)
(***************************************************************************)
\* name contains text as a substring, letter case ignored.
ContainsIgnoringCase(name, text) ==
    \E k \in 0..(Len(name) - Len(text)) :
        \A j \in 1..Len(text) : LowerChar[name[k + j]] = LowerChar[text[j]]

\* The record passes the filter and the search text.
MatchesQuery(project, filter, text) ==
    /\ filter = "todos" \/ project.estado = filter
    /\ ContainsIgnoringCase(project.nombre, text)

MatchingCount ==
    Cardinality({i \in 1..Len(projects) :
                    MatchesQuery(projects[i], currentFilter, searchInput)})

\* ceil(matchingCount / pageSize)
TotalPages ==
    IF MatchingCount % projectsPerPage = 0
    THEN MatchingCount \div projectsPerPage
    ELSE MatchingCount \div projectsPerPage + 1

PageInRange == currentPage \in 1..TotalPages

\* The page shows what loadProjects gives for the current state.
RenderedFromCurrentState ==
    LET view == loadProjects(projects, currentFilter, searchInput, sortSelect,
                             currentPage)
    IN  /\ projectsGrid = view.projectsGrid
        /\ pagination = view.pagination

(***************************************************************************)
(* C1.  A page-selected(n) intent raised by a rendered pagination button   *)
(* sets the current page to n when n is a valid page index of the current  *)
(* result (1 <= n <= totalPages), and otherwise leaves the current page    *)
(* unchanged.                                                              *)
(***************************************************************************)
C1_PageSelectedGuarded ==
    [][lastIntent'.kind = "page" =>
          IF lastIntent'.arg \in 1..TotalPages
          THEN currentPage' = lastIntent'.arg
          ELSE currentPage' = currentPage]_vars

(***************************************************************************)
(* C2.  As claimed: in every state after the load the current page lies in *)
(* [1, totalPages].                                                        *)
(***************************************************************************)
C2_PageAlwaysInRange == phase = "ready" => PageInRange

(***************************************************************************)
(* C2, amended.  After the load the current page is at least 1; it lies in *)
(* [1, totalPages] right after the load and right after a filter-selected  *)
(* intent whenever the result is not empty, and a page-selected or         *)
(* sort-changed intent raised while the page is in range leaves it in      *)
(* range.                                                                  *)
(***************************************************************************)
C2_PageRangeByIntent ==
    [][phase' = "ready" =>
          /\ currentPage' >= 1
          /\ (lastIntent'.kind \in {"load", "filter"} /\ TotalPages' >= 1)
                => PageInRange'
          /\ (/\ phase = "ready"
              /\ PageInRange
              /\ lastIntent'.kind \in {"page", "sort"})
                => PageInRange']_vars

\* A page-selected intent has moved to the last of several pages.
C2_Witness ==
    /\ phase = "ready"
    /\ lastIntent.kind = "page"
    /\ TotalPages >= 2
    /\ currentPage = TotalPages

(***************************************************************************)
(* C3.  After a filter-selected(category) intent is handled the active     *)
(* filter and the persisted preference equal category, the current page is *)
(* 1, and the rendered result is the one recomputed from the new state.    *)
(***************************************************************************)
C3_FilterSelected ==
    lastIntent.kind = "filter" =>
        /\ currentFilter = lastIntent.arg
        /\ localStorage = lastIntent.arg
        /\ currentPage = 1
        /\ RenderedFromCurrentState

\* A filter was selected while a search text was set, and cards are shown.
C3_Witness ==
    /\ lastIntent.kind = "filter"
    /\ currentFilter = "completados"
    /\ searchInput # <<>>
    /\ Len(projectsGrid) >= 2

(***************************************************************************)
(* C4.  A search-changed intent and a sort-changed intent leave the        *)
(* current page, the active filter and the persisted preference unchanged. *)
(***************************************************************************)
C4_SearchSortKeepPage ==
    [][lastIntent'.kind \in {"search", "sort"} =>
          /\ currentPage' = currentPage
          /\ currentFilter' = currentFilter
          /\ localStorage' = localStorage]_vars

\* A search has narrowed the result below the current page.
C4_Witness ==
    /\ lastIntent.kind = "search"
    /\ TotalPages >= 1
    /\ currentPage > TotalPages

(***************************************************************************)
(* C5.  Whenever the current page is greater than the total page count of  *)
(* the current result, the recompute has rendered an empty visible slice.  *)
(***************************************************************************)
C5_BeyondLastPageEmpty ==
    (phase = "ready" /\ currentPage > TotalPages) => projectsGrid = <<>>

\* On page 2 of a result that a search has narrowed to one page.
C5_Witness ==
    /\ phase = "ready"
    /\ lastIntent.kind = "search"
    /\ currentPage = 2
    /\ TotalPages = 1
    /\ projectsGrid = <<>>

(***************************************************************************)
(* The steps of the recompute on the current state.                        *)
(***************************************************************************)
FilteredResult == filterProjects(projects, currentFilter)
SearchedResult == searchProjects(FilteredResult, searchInput)
SortedResult   == sortProjects(SearchedResult, sortSelect)

\* Number of numbered buttons between "Anterior" and "Siguiente".
RenderedPages == Len(pagination) - 2

\* The cards of a sequence of records.
CardsOf(list) == [i \in 1..Len(list) |-> createProjectCard(list[i])]

\* Pages first..last of list, one after the other.
RECURSIVE ConcatPages(_, _, _)
ConcatPages(list, first, last) ==
    IF first > last THEN <<>>
    ELSE paginateProjects(list, first) \o ConcatPages(list, first + 1, last)

\* The records of the collection that pass filter and search, in the order
\* of the collection.
MatchingRecords ==
    SelectSeq(projects,
              LAMBDA project : MatchesQuery(project, currentFilter, searchInput))

\* The j-th smallest element of a set of numbers.
NthOf(set, j) == CHOOSE i \in set : Cardinality({k \in set : k <= i}) = j

\* The records of all at the positions of set, in increasing position.
RecordsAt(all, set) == [j \in 1..Cardinality(set) |-> all[NthOf(set, j)]]

\* Calendar date a is not before calendar date b.
NotBefore(a, b) ==
    \/ a[1] > b[1]
    \/ a[1] = b[1] /\ a[2] > b[2]
    \/ a[1] = b[1] /\ a[2] = b[2] /\ a[3] >= b[3]

(***************************************************************************)
(* C6.  totalPages = ceil(matchingCount / 10); the pages 1..totalPages     *)
(* concatenated give the sorted, filtered, searched sequence; every page   *)
(* but the last holds 10 records and none holds more; an empty result has  *)
(* matchingCount 0 and totalPages 0.                                       *)
(***************************************************************************)
C6_Pagination ==
    phase = "ready" =>
        /\ Len(SortedResult) = MatchingCount
        /\ RenderedPages = TotalPages
        /\ ConcatPages(SortedResult, 1, RenderedPages) = SortedResult
        /\ \A p \in 1..RenderedPages :
              /\ Len(paginateProjects(SortedResult, p)) <= projectsPerPage
              /\ p < RenderedPages =>
                    Len(paginateProjects(SortedResult, p)) = projectsPerPage
        /\ currentPage \in 1..RenderedPages =>
              projectsGrid = CardsOf(paginateProjects(SortedResult, currentPage))
        /\ SortedResult = <<>> => (MatchingCount = 0 /\ RenderedPages = 0)

\* A result of three pages whose last page is not full, and an empty result
\* are both covered; this is the first.
C6_Witness ==
    /\ phase = "ready"
    /\ RenderedPages >= 3
    /\ MatchingCount % projectsPerPage # 0
    /\ currentPage = RenderedPages

(***************************************************************************)
(* C7.  The visible slice is page p of sort(search(filter(C))) and the     *)
(* page count comes from the size of search(filter(C)); on the sample      *)
(* collection with filter "todos", no search text, sort by name and page 1 *)
(* the slice is App de Gestion, Blog Personal, E-commerce Platform and     *)
(* there is one page.                                                      *)
(***************************************************************************)
C7_PipelineOrder ==
    phase = "ready" =>
        /\ projectsGrid =
              CardsOf(paginateProjects(sortProjects(MatchingRecords, sortSelect),
                                       currentPage))
        /\ RenderedPages = TotalPages
        /\ (/\ projects = SampleProjects
            /\ currentFilter = "todos"
            /\ searchInput = <<>>
            /\ sortSelect = "nombre"
            /\ currentPage = 1)
              => /\ [i \in 1..Len(projectsGrid) |-> projectsGrid[i].dataId]
                      = << <<"3">>, <<"2">>, <<"1">> >>
                 /\ [i \in 1..Len(projectsGrid) |-> projectsGrid[i].title]
                      = << SampleProjects[3].nombre, SampleProjects[2].nombre,
                           SampleProjects[1].nombre >>
                 /\ RenderedPages = 1

\* The scenario of the sample collection, reached by choosing the name sort.
C7_Witness ==
    /\ phase = "ready"
    /\ projects = SampleProjects
    /\ currentFilter = "todos"
    /\ searchInput = <<>>
    /\ sortSelect = "nombre"
    /\ currentPage = 1
    /\ lastIntent.kind = "sort"

(***************************************************************************)
(* C8.  For a filter category other than "todos" the filter step returns   *)
(* exactly the records whose status equals the category, in their original *)
(* relative order; for "todos" it returns every record.                    *)
(***************************************************************************)
C8_FilterStep ==
    \A f \in Filters :
        IF f = "todos" THEN filterProjects(projects, f) = projects
        ELSE filterProjects(projects, f) =
                RecordsAt(projects,
                          {i \in 1..Len(projects) : projects[i].estado = f})

\* A category that keeps some records of the collection and drops others.
C8_Witness ==
    /\ phase = "ready"
    /\ lastIntent.kind = "filter"
    /\ currentFilter = "en-progreso"
    /\ Len(FilteredResult) \in 11..(Len(projects) - 1)

(***************************************************************************)
(* C9.  The search step keeps exactly the records whose name contains the  *)
(* search text as a substring, letter case ignored on both sides; search   *)
(* texts that differ in letter case only give the same result, and the     *)
(* empty search text keeps every record.                                   *)
(***************************************************************************)
C9_SearchStep ==
    /\ \A t \in SearchTexts :
          searchProjects(FilteredResult, t) =
             RecordsAt(FilteredResult,
                       {i \in 1..Len(FilteredResult) :
                           ContainsIgnoringCase(FilteredResult[i].nombre, t)})
    /\ \A t1, t2 \in SearchTexts :
          (/\ Len(t1) = Len(t2)
           /\ \A j \in 1..Len(t1) : LowerChar[t1[j]] = LowerChar[t2[j]])
             => searchProjects(FilteredResult, t1)
                   = searchProjects(FilteredResult, t2)
    /\ searchProjects(FilteredResult, <<>>) = FilteredResult
    /\ phase = "ready" =>
          projectsGrid =
             CardsOf(paginateProjects(
                        sortProjects(searchProjects(FilteredResult, searchInput),
                                     sortSelect),
                        currentPage))

\* An upper-case search text has found names written in other letter cases.
C9_Witness ==
    /\ phase = "ready"
    /\ lastIntent.kind = "search"
    /\ searchInput = <<"B","L","O","G">>
    /\ \E i \in 1..Len(projectsGrid) :
          projectsGrid[i].title = <<"b","l","o","g">>
    /\ \E i \in 1..Len(projectsGrid) :
          projectsGrid[i].title = <<"B","l","o","g">>

(***************************************************************************)
(* C10.  With the sort key fechaActualizacion the sorted sequence is a     *)
(* permutation of the searched set in which no record is followed by one   *)
(* with a later date.                                                      *)
(***************************************************************************)
C10_DateDescending ==
    (phase = "ready" /\ sortSelect = "fechaActualizacion") =>
        /\ Len(SortedResult) = Len(SearchedResult)
        /\ {SortedResult[i] : i \in 1..Len(SortedResult)}
              = {SearchedResult[i] : i \in 1..Len(SearchedResult)}
        /\ \A i \in 1..(Len(SortedResult) - 1) :
              NotBefore(SortedResult[i].fechaActualizacion,
                        SortedResult[i + 1].fechaActualizacion)
        /\ projectsGrid =
              CardsOf(paginateProjects(SortedResult, currentPage))

\* A full page sorted by date that starts and ends on different dates.
C10_Witness ==
    /\ phase = "ready"
    /\ lastIntent.kind = "sort"
    /\ sortSelect = "fechaActualizacion"
    /\ Len(projectsGrid) = projectsPerPage
    /\ projectsGrid[1].date # projectsGrid[projectsPerPage].date

(***************************************************************************)
(* C11.  The sort step is stable for every sort key: records that compare  *)
(* equal under the active key (equal names, equal dates, equal status      *)
(* tokens) keep the relative order they have in the loaded collection.     *)
(***************************************************************************)
\* The two records have the same value of the field the key sorts by.
EqualUnderKey(key, a, b) ==
    CASE key = "nombre"             -> a.nombre = b.nombre
      [] key = "fechaActualizacion" -> a.fechaActualizacion = b.fechaActualizacion
      [] key = "estado"             -> a.estado = b.estado

\* Position of a record in the loaded collection.
PositionOf(record) == CHOOSE k \in 1..Len(projects) : projects[k] = record

C11_StableSort ==
    phase = "ready" =>
        LET sorted == SortedResult
            position == [i \in 1..Len(sorted) |-> PositionOf(sorted[i])]
        IN  /\ \A i, j \in 1..Len(sorted) :
                  (i < j /\ EqualUnderKey(sortSelect, sorted[i], sorted[j]))
                     => position[i] < position[j]
            /\ projectsGrid = CardsOf(paginateProjects(sorted, currentPage))

\* The name sort has rendered two cards of the same name next to each other.
C11_Witness ==
    /\ phase = "ready"
    /\ lastIntent.kind = "sort"
    /\ sortSelect = "nombre"
    /\ \E i \in 1..(Len(projectsGrid) - 1) :
          projectsGrid[i].title = projectsGrid[i + 1].title

(***************************************************************************)
(* C12.  A recompute that is run again with the query state unchanged (a   *)
(* click on the filter that is already active on page 1, a click on the    *)
(* button of the current page) renders the same visible slice and the same *)
(* pagination as before.                                                   *)
(***************************************************************************)
C12_RecomputeIdempotent ==
    [][(/\ ControlsReachable
        /\ lastIntent'.kind \in {"filter", "page"}
        /\ currentFilter' = currentFilter
        /\ currentPage' = currentPage
        /\ searchInput' = searchInput
        /\ sortSelect' = sortSelect)
          => /\ projectsGrid' = projectsGrid
             /\ pagination' = pagination]_vars

\* The active filter "todos" was clicked again while cards were shown.
C12_Witness ==
    /\ phase = "ready"
    /\ lastIntent.kind = "filter"
    /\ lastIntent.repeated
    /\ currentFilter = "todos"
    /\ Len(projectsGrid) = projectsPerPage

(***************************************************************************)
(* C13.  Once loaded, the collection is changed by no intent and no        *)
(* recompute: it holds the same records in the same order.                 *)
(***************************************************************************)
C13_CollectionReadOnly ==
    [][(phase = "ready" /\ phase' = "ready") => projects' = projects]_vars

\* With the filter "todos" a sort has rendered the whole collection in an
\* order that is not the order of the collection.
C13_Witness ==
    /\ phase = "ready"
    /\ lastIntent.kind = "sort"
    /\ currentFilter = "todos"
    /\ searchInput = <<>>
    /\ Len(projects) >= 2
    /\ SortedResult # projects

(***************************************************************************)
(* C14.  The stored preference is the last filter selected in any session  *)
(* (nothing is stored before the first selection); a session starts with   *)
(* that filter, or with "todos" when nothing is stored; only a             *)
(* filter-selected intent writes the stored preference, and within a       *)
(* session only a filter-selected intent changes the active filter.        *)
(***************************************************************************)
C14_PersistedFilter ==
    [][/\ localStorage' = everSelected'
       /\ phase' = "loading" =>
             currentFilter' = (IF everSelected' = null THEN "todos"
                               ELSE everSelected')
       /\ localStorage' # localStorage => lastIntent'.kind = "filter"
       /\ currentFilter' # currentFilter =>
             lastIntent'.kind \in {"filter", "none"}]_vars

\* A later session has started with the filter selected in an earlier one.
C14_Witness ==
    /\ phase = "loading"
    /\ lastIntent.kind = "none"
    /\ everSelected = "pausados"
    /\ currentFilter = "pausados"

(***************************************************************************)
(* C15.  When the initial load fails the failure is logged once, the       *)
(* collection stays empty and init still completes: the listeners are      *)
(* installed, no card and no page button is rendered, and no listener      *)
(* throws on the empty collection.                                         *)
(***************************************************************************)
C15_LoadFailureTolerated ==
    consoleErrors >= 1 =>
        /\ consoleErrors = 1
        /\ phase = "ready"
        /\ projects = <<>>
        /\ projectsGrid = <<>>
        /\ RenderedPages = 0
        /\ ~uncaughtError

\* After a failed load a filter-selected intent has been handled.
C15_Witness ==
    /\ consoleErrors = 1
    /\ lastIntent.kind = "filter"
    /\ currentFilter = "completados"
    /\ localStorage = "completados"

(***************************************************************************)
(* C16.  A card-selected(id) intent whose id matches a record shows the    *)
(* details of that record; one whose id matches no record is a silent      *)
(* no-op: no error, no detail view.                                        *)
(***************************************************************************)
C16_CardSelected ==
    lastIntent.kind = "card" =>
        LET found == FoundAt(projects, parseInt(lastIntent.arg))
        IN  IF found # {}
            THEN \E k \in found : modal = <<showProjectDetails(projects[k])>>
            ELSE modal = <<>> /\ ~uncaughtError

(***************************************************************************)
(* C17.  In every rendered state "Anterior" is disabled exactly on the     *)
(* first page, "Siguiente" is disabled exactly when no page follows the    *)
(* current one (it is the last page, or there is no page at all), and the  *)
(* numbered button of the current page is the only one marked active.      *)
(***************************************************************************)
C17_PaginationAffordances ==
    phase = "ready" =>
        /\ pagination[1].disabled = (currentPage = 1)
        /\ pagination[Len(pagination)].disabled = (currentPage >= TotalPages)
        /\ {i \in 1..RenderedPages : pagination[i + 1].active}
              = {currentPage} \cap (1..RenderedPages)

(***************************************************************************)
(* C18.  getStatusClass and getStatusText map the three known status       *)
(* tokens to three distinct fixed values each, and every other status to   *)
(* no value.                                                               *)
(***************************************************************************)
KnownStatuses == {"en-progreso", "completados", "pausados"}

C18_StatusMapping ==
    /\ \A i, j \in 1..Len(projects) :
          (/\ projects[i].estado \in KnownStatuses
           /\ projects[j].estado \in KnownStatuses
           /\ projects[i].estado # projects[j].estado)
             => /\ getStatusClass(projects[i]) # getStatusClass(projects[j])
                /\ getStatusText(projects[i]) # getStatusText(projects[j])
    /\ \A i \in 1..Len(projects) :
          IF projects[i].estado \in KnownStatuses
          THEN /\ getStatusClass(projects[i])
                     \in {"status-progress", "status-completed", "status-paused"}
               /\ getStatusText(projects[i])
                     \in {"En Progreso", "Completado", "Pausado"}
          ELSE /\ getStatusClass(projects[i]) = undefined
               /\ getStatusText(projects[i]) = undefined

(***************************************************************************)
(* C19.  Every state-changing intent recomputes after it has updated the   *)
(* query state: whenever the listeners are idle, the rendered cards and    *)
(* pagination controls are the recompute of the current collection and     *)
(* query state.                                                            *)
(***************************************************************************)
C19_RenderedIsRecompute == phase = "ready" => RenderedFromCurrentState

\* A page-selected intent has rendered the second page of a status sort.
C19_Witness ==
    /\ phase = "ready"
    /\ lastIntent.kind = "page"
    /\ sortSelect = "estado"
    /\ currentPage = 2
    /\ Len(projectsGrid) >= 1

(***************************************************************************)
(* C20.  As claimed: a filter-selected intent that arrives while the       *)
(* initial load is pending sets the active filter and the stored           *)
(* preference.                                                             *)
(***************************************************************************)
C20_IntentWhileLoadingProcessed ==
    [][(phase = "loading" /\ lastIntent'.kind = "filter-unheard") =>
          /\ currentFilter' = lastIntent'.arg
          /\ localStorage' = lastIntent'.arg]_vars

(***************************************************************************)
(* C20, amended.  While the initial load is pending no listener is         *)
(* installed: a click on a filter button changes neither the active filter *)
(* nor the stored preference, an edit of the search text or of the sort    *)
(* option changes that control only, and nothing is rendered.  Once the    *)
(* load ends, the view is the recompute of the loaded collection, the      *)
(* filter of the session's start and the search text and sort key that the *)
(* controls hold.                                                          *)
(***************************************************************************)
C20_NoListenerWhileLoading ==
    [][/\ (phase = "loading" /\ phase' = "loading" /\ lastIntent'.kind # "none")
             => UNCHANGED <<currentFilter, localStorage, currentPage, projects,
                            projectsGrid, pagination, activeButtons>>
       /\ lastIntent'.kind = "load"
             => /\ currentFilter' = currentFilter
                /\ searchInput' = searchInput
                /\ sortSelect' = sortSelect
                /\ LET view == loadProjects(projects', currentFilter,
                                            searchInput, sortSelect,
                                            currentPage)
                   IN  /\ projectsGrid' = view.projectsGrid
                       /\ pagination' = view.pagination]_vars

\* The load has ended with a search text typed while it was pending, and the
\* cards shown are those that match it.
C20_Witness ==
    /\ phase = "ready"
    /\ lastIntent.kind = "load"
    /\ searchInput = <<"b","l","o","g">>
    /\ Len(projectsGrid) >= 2
    /\ Len(projectsGrid) < Len(projects)

(***************************************************************************)
(* C21.  The current page number is at least 1 in every reachable state:   *)
(* every pagination button that can be clicked, "Anterior" with its target *)
(* current page - 1 included, asks for a page that is at least 1.          *)
(***************************************************************************)
C21_PageAtLeastOne ==
    /\ currentPage >= 1
    /\ \A i \in 1..Len(pagination) :
          ~pagination[i].disabled =>
              /\ ~isNaN(RequestedPage(pagination[i]))
              /\ RequestedPage(pagination[i]).value >= 1

\* A page-selected intent has led to page 1 of a result without pages: no
\* numbered button is rendered, so it was raised by "Anterior" on page 2.
C21_Witness ==
    /\ phase = "ready"
    /\ lastIntent.kind = "page"
    /\ currentPage = 1
    /\ RenderedPages = 0
    /\ pagination[1].disabled

(***************************************************************************)
(* C22.  Right after a filter-selected intent the visible slice is empty   *)
(* only if no record passes the new filter and the current search text;    *)
(* otherwise it holds the first min(10, matchingCount) records of the      *)
(* sorted result.                                                          *)
(***************************************************************************)
C22_SliceAfterFilter ==
    lastIntent.kind = "filter" =>
        LET sorted  == SortedResult
            visible == IF MatchingCount < projectsPerPage THEN MatchingCount
                       ELSE projectsPerPage
        IN  /\ (projectsGrid = <<>>) <=> (MatchingCount = 0)
            /\ Len(projectsGrid) = visible
            /\ projectsGrid = CardsOf(SubSeq(sorted, 1, visible))

\* A filter was selected and more records pass it than one page holds.
C22_Witness ==
    /\ lastIntent.kind = "filter"
    /\ currentFilter = "en-progreso"
    /\ MatchingCount > projectsPerPage
    /\ Len(projectsGrid) = projectsPerPage

====
